---- MODULE Spec2Model ----
(***************************************************************************)
(* The email-sync pipeline of the Email-assistant repository:              *)
(*   - CacheService.get / CacheService.set            (src/lib/cache.ts)   *)
(*   - updateSyncStatus, POST, processEmailsAsync                          *)
(*       (app/api/gmail/sync/route.ts, held in src/app/dashboard/page.tsx) *)
(* One user.  Every await of the handlers is a step boundary; what runs    *)
(* between two awaits is one atomic step (one JavaScript event-loop job).  *)
(* Time is counted in seconds.  Strings that the code searches in (message *)
(* ids, task titles) are sequences of character codes.                     *)
(***************************************************************************)
EXTENDS Integers, Sequences, FiniteSets, TLC

(* ------------------------------ bounds --------------------------------- *)
MaxCalls == 2
MaxMsgs == 4
MaxSharedMsgs == 1
MaxTime == 300
TickSeconds == 150
MaxFailures == 1
MaxTasks == 2
MaxOver == 1
MaxDay == 1
MaxCallbacks == 2
MaxSubscribes == 3
MaxTriggers == 2
MaxReads == 2
MaxListReads == 2
MaxRequests == 2

(* ------------------------- program constants --------------------------- *)
BatchSize == 3
StatusTTL == 300
DedupWindow == 604800
ListTTL == 300
IdPrefixLen == 50

Calls == 1..MaxCalls
UserId == "u1"

NoDate == -1
NoError == "<null>"

Min(a, b) == IF a <= b THEN a ELSE b
Max(a, b) == IF a >= b THEN a ELSE b

(* ------------------------------ strings -------------------------------- *)
\* String.prototype.substring(from, to)
Substring(s, from, to) == SubSeq(s, from + 1, Min(to, Len(s)))

\* Prisma's  { contains: sub }  filter: sub occurs in s
Contains(s, sub) ==
    \E k \in 0..(Len(s) - Len(sub)) : SubSeq(s, k + 1, k + Len(sub)) = sub

Untitled == <<9>>
GenericTitle == <<0>>

(* --------------------------- the mail source --------------------------- *)
\* A message is [id, content]; the id of the j-th message is the one
\* character string <<j>>.  The content decides what the extractor returns.
Contents == {"na", "two", "refs1"}

Message(j, content) == [id |-> <<j>>, content |-> content]

\* What the mail source holds: the contents of its messages, in list order.
\* The mailboxes of the model are the prefixes of the rotations of BaseContents.
BaseContents == <<"refs1", "two", "na">>

Mailboxes ==
    { [j \in 1..n |-> BaseContents[((j - 1 + shift) % Len(BaseContents)) + 1]] :
        n \in 1..MaxMsgs, shift \in 0..(Len(BaseContents) - 1) }

(* ---------------------------- the extractor ---------------------------- *)
\* emailAnalysisChain for a call that does not throw: the analysis is a
\* function of the content.  "refs1" is a mail whose extracted title quotes
\* the string that is the id of the first message.
Extract(content) ==
    CASE content = "na"    -> [is_actionable |-> FALSE, tasks |-> <<>>]
      [] content = "two"   -> [is_actionable |-> TRUE,
                               tasks |-> << [title |-> GenericTitle],
                                            [title |-> GenericTitle] >>]
      [] content = "refs1" -> [is_actionable |-> TRUE,
                               tasks |-> << [title |-> GenericTitle \o <<1>>] >>]

(* ---------------------------- sync status ------------------------------ *)
DefaultStatus ==
    [ isProcessing    |-> FALSE,
      progress        |-> 0,
      currentStep     |-> "",
      totalEmails     |-> 0,
      processedEmails |-> 0,
      tasksCreated    |-> 0,
      emailsFailed    |-> 0,
      lastSync        |-> NoDate,
      error           |-> NoError ]

Fields == DOMAIN DefaultStatus

\* mutant: the updates are overlaid onto the zeroed default, not onto the
\* status read
MergeStatusFromDefault(current, updates, t) ==
    [ f \in Fields |->
        IF f = "lastSync"
        THEN IF "isProcessing" \in DOMAIN updates /\ updates["isProcessing"] = FALSE
             THEN t
             ELSE current["lastSync"]
        ELSE IF f \in DOMAIN updates THEN updates[f] ELSE DefaultStatus[f] ]

\* mutant: isProcessing, once true in the status read, stays true
MergeStatusStickyFlag(current, updates, t) ==
    [ f \in Fields |->
        IF f = "lastSync"
        THEN IF "isProcessing" \in DOMAIN updates /\ updates["isProcessing"] = FALSE
             THEN t
             ELSE current["lastSync"]
        ELSE IF f = "isProcessing" /\ current[f]
        THEN TRUE
        ELSE IF f \in DOMAIN updates THEN updates[f] ELSE current[f] ]

\* updateSyncStatus, the value written: overlay the updates onto the status
\* read, lastSync stamped when the updates carry isProcessing === false.
MergeStatus(current, updates, t) ==
    [ f \in Fields |->
        IF f = "lastSync"
        THEN IF "isProcessing" \in DOMAIN updates /\ updates["isProcessing"] = FALSE
             THEN t
             ELSE current["lastSync"]
        ELSE IF f \in DOMAIN updates THEN updates[f] ELSE current[f] ]

\* cache.get(...) || { zeroed default }
OrDefault(got) == IF got = <<>> THEN DefaultStatus ELSE got[1]

(* ------------------------------ the cache ------------------------------ *)
\* mutant: an entry never expires
LiveForever(store, t) == IF store # <<>> THEN << store[1].val >> ELSE <<>>

\* The status key of the user: <<>> when absent, else one entry.
Live(store, t) ==
    IF store # <<>> /\ t < store[1].expiresAt THEN << store[1].val >> ELSE <<>>

\* CacheService.get: the value, or null after an error of the Redis call
\* (the catch block then tries to delete the key, which may fail too).
GetOutcomes(store, t, mayFail) ==
    { [ret |-> Live(store, t), store |-> store, fault |-> 0] }
    \cup
    IF mayFail
    THEN { [ret |-> <<>>, store |-> <<>>, fault |-> 1],
           [ret |-> <<>>, store |-> store, fault |-> 1] }
    ELSE {}

\* CacheService.set: stored with the TTL, or nothing stored after an error
\* of the Redis call (logged and swallowed).
SetOutcomes(store, v, t, ttl, mayFail) ==
    { [store |-> << [val |-> v, expiresAt |-> t + ttl] >>, fault |-> 0] }
    \cup
    IF mayFail THEN { [store |-> store, fault |-> 1] } ELSE {}

(* ------------------------------ the state ------------------------------ *)
VARIABLES
    now,        \* the clock, in seconds
    cache,      \* the Redis key sync:status:<user>: <<>> or one entry
    db,         \* the task table: a set of rows
    mailbox,    \* the contents of the messages the mail source returns
    ncalls,     \* how many start-sync calls the user makes
    call,       \* per start-sync call: its position and its local variables
    failures,   \* errors so far: of Redis calls, and exceptions thrown by the
                \* task store
    writer,     \* history: the call whose cache.set stored the entry of the
                \* status key, 0 when the key is absent
    extraction, \* one per-message step looked at in detail: the tasks the
                \* model returned, the extractor's result, the records built
    status,     \* SyncManager.status, the status cached in the browser
    listeners,  \* SyncManager.listeners, in registration order
    unsubscribes, \* the unsubscribe functions subscribe has returned: the
                \* callback each closes over, and whether it has been called
    notified,   \* history: the last round of callback invocations
    trigger,    \* the triggerSync calls: position and result
    poll,       \* the polling loops, by the POST that started them
    check,      \* the checkSyncStatus call: position and response
    listCache,  \* the Redis key tasks:user:<user>: <<>> or one entry
    listReads,  \* the GET /api/tasks requests: position and local variables
    requests    \* the PATCH and DELETE /api/tasks/<id> requests

\* the state of the SyncManager of the browser
clientVars == <<status, listeners, unsubscribes, notified, trigger, poll, check>>

\* the state of the task routes
taskVars == <<listCache, listReads, requests>>

\* the state outside the sync pipeline
others == <<extraction, clientVars, taskVars>>

\* the state of the sync pipeline, the clock apart
syncVars == <<cache, db, mailbox, ncalls, call, failures, writer>>

vars == <<now, cache, db, mailbox, ncalls, call, failures, writer, others>>

Pending == [status |-> "pending", value |-> <<>>]

\* No per-message step is looked at in detail
NoAnalysis ==
    [ pc |-> "off", raw |-> <<>>,
      currentDateStr |-> [kind |-> "iso", day |-> 0, secs |-> 0],
      tasks |-> <<>>, tasksForEmail |-> <<>>, currentDate |-> 0 ]

NewCall ==
    [ pc                |-> "idle",     \* idle, merge, fetch, process, insert, done, rejected
      site              |-> "",         \* which updateSyncStatus call is running
      phase             |-> "",         \* get: before its cache.get, set: before its cache.set
      currentStatus     |-> <<>>,       \* the result of the last cache.get
      response          |-> "",         \* data.status of the HTTP response
      httpStatus        |-> 0,
      emails            |-> 0,          \* emails.length
      i                 |-> 0,          \* the batch loop variable
      batchResults      |-> <<>>,
      processedEmails   |-> 0,
      failedEmails      |-> 0,
      allTasksToCreate  |-> <<>>,
      totalTasksCreated |-> 0,
      error             |-> NoError,    \* the message of the exception caught
      fate              |-> <<>>,       \* history: what became of each message
      lone              |-> FALSE,      \* history: no other call was in flight
                                        \* when this one was accepted
      intact            |-> FALSE ]     \* history: every status write of the run
                                        \* was stored and every later read of the
                                        \* run returned what the run stored last

(* --------------------------- the SyncManager --------------------------- *)
\* The callbacks the page components pass to subscribe
Callbacks == 1..MaxCallbacks

\* The triggerSync calls of the user
Triggers == 1..MaxTriggers

\* The initial value of SyncManager.status (the client's SyncStatus has no
\* emailsFailed field)
ClientDefault ==
    [ isProcessing    |-> FALSE,
      progress        |-> 0,
      currentStep     |-> "",
      totalEmails     |-> 0,
      processedEmails |-> 0,
      tasksCreated    |-> 0,
      lastSync        |-> NoDate,
      error           |-> NoError ]

NoResponse == [ok |-> FALSE, code |-> 0, body |-> <<>>]

\* No callback has been invoked
NoRound == [round |-> 0, count |-> [f \in Callbacks |-> 0], with |-> ClientDefault]

NoTrigger == [pc |-> "idle", result |-> "", post |-> 0]

\* poll has not been called: no request in flight, no timer pending
NoPoll == [pc |-> "none", timers |-> 0, resp |-> NoResponse, reads |-> 0]

NoCheck == [pc |-> "idle", resp |-> NoResponse]

\* A SyncManager just constructed
NoClient ==
    /\ status = ClientDefault
    /\ listeners = <<>>
    /\ unsubscribes = <<>>
    /\ notified = NoRound
    /\ trigger = [t \in Triggers |-> NoTrigger]
    /\ poll = [p \in Calls |-> NoPoll]
    /\ check = NoCheck

(* --------------------------- the task routes -------------------------- *)
\* The GET /api/tasks requests
ListReads == 1..MaxListReads

\* The PATCH and DELETE requests
Requests == 1..MaxRequests

NoListRead ==
    [ pc    |-> "none",   \* none, find, set, done
      tasks |-> {},       \* the local variable tasks
      code  |-> 0,        \* the status of the response
      after |-> {} ]      \* history: the runs whose terminal success status
                          \* was in the store when the request arrived

NoRequest ==
    [pc |-> "none", op |-> "", user |-> "", id |-> <<>>, data |-> <<>>, code |-> 0]

\* No request to the task routes has been made
NoTaskTraffic ==
    /\ listCache = <<>>
    /\ listReads = [r \in ListReads |-> NoListRead]
    /\ requests = [r \in Requests |-> NoRequest]

Init ==
    /\ now = 0
    /\ cache = <<>>
    /\ db = {}
    /\ mailbox \in Mailboxes
    \* several calls over a mailbox of at most MaxSharedMsgs messages, or one
    \* call over a larger mailbox
    /\ ncalls = IF Len(mailbox) <= MaxSharedMsgs THEN MaxCalls ELSE 1
    /\ call = [p \in Calls |-> NewCall]
    /\ failures = 0
    /\ writer = 0
    /\ extraction = NoAnalysis
    /\ NoClient
    /\ NoTaskTraffic

MayFault == failures < MaxFailures
MayThrow == failures < MaxFailures

(* ------------------------- updateSyncStatus ---------------------------- *)
\* mutant: the batch progress is neither scaled by the mailbox size nor capped
TotalProgressUnscaled(settled, total) == 20 + settled * 60

\* emailProgress = ((processedEmails + failedEmails) / emails.length) * 60,
\* exact here because every mailbox size of the model divides 60.
EmailProgress(settled, total) == (settled * 60) \div total

TotalProgress(settled, total) == Min(20 + EmailProgress(settled, total), 80)

\* mutant: the acceptance write does not reset the counters
InitialUpdatesNoReset ==
    [ isProcessing |-> TRUE, progress |-> 0,
      currentStep |-> "Connecting to Gmail...", error |-> NoError ]

\* POST: the updates of the acceptance write
InitialUpdates ==
    [ isProcessing |-> TRUE, progress |-> 0,
      currentStep |-> "Connecting to Gmail...",
      totalEmails |-> 0, processedEmails |-> 0, tasksCreated |-> 0,
      emailsFailed |-> 0, error |-> NoError ]

\* The updates argument of each updateSyncStatus call of POST and
\* processEmailsAsync, from the local variables c of the call.
Updates(site, c) ==
    CASE site = "initial" -> InitialUpdates
      [] site = "fetching" ->
           [ progress |-> 10, currentStep |-> "Fetching recent emails..." ]
      [] site = "nomail" ->
           [ isProcessing |-> FALSE, progress |-> 100,
             currentStep |-> "No new emails found", totalEmails |-> 0 ]
      [] site = "analyzing" ->
           [ progress |-> 20, currentStep |-> "Analyzing emails with AI...",
             totalEmails |-> c.emails ]
      [] site = "batch" ->
           [ progress |-> TotalProgress(c.processedEmails + c.failedEmails, c.emails),
             currentStep |-> "Analyzing emails... "
                               \o ToString(c.processedEmails + c.failedEmails)
                               \o "/" \o ToString(c.emails),
             processedEmails |-> c.processedEmails,
             emailsFailed |-> c.failedEmails ]
      [] site = "saving" ->
           [ progress |-> 85, currentStep |-> "Saving tasks to database..." ]
      [] site = "final" ->
           [ isProcessing |-> FALSE, progress |-> 100,
             currentStep |-> "Sync completed successfully!",
             processedEmails |-> c.processedEmails,
             emailsFailed |-> c.failedEmails,
             tasksCreated |-> c.totalTasksCreated ]
      [] site = "failed" ->
           [ isProcessing |-> FALSE, error |-> c.error,
             currentStep |-> "Sync failed" ]

\* Entering updateSyncStatus: its cache.get is issued.
BeginMerge(c, site) == [c EXCEPT !.pc = "merge", !.site = site, !.phase = "get"]

\* updateSyncStatus, first half: await cache.get
MergeGet(p) ==
    /\ call[p].pc = "merge"
    /\ call[p].phase = "get"
    /\ \E o \in GetOutcomes(cache, now, MayFault) :
         /\ cache' = o.store
         /\ writer' = IF o.store = <<>> THEN 0 ELSE writer
         /\ failures' = failures + o.fault
         /\ call' = [call EXCEPT ![p] =
                        [@ EXCEPT !.currentStatus = o.ret, !.phase = "set",
                                  !.intact = @ /\ writer = p /\ o.ret # <<>>]]
    /\ UNCHANGED <<now, db, mailbox, ncalls, others>>

\* processEmailsAsync has returned: its local variables are gone.
Finished(c) ==
    [NewCall EXCEPT !.pc = "done", !.site = c.site,
                    !.response = c.response, !.httpStatus = c.httpStatus,
                    !.fate = c.fate, !.lone = c.lone]

\* What the caller does when its updateSyncStatus call has returned, up to
\* its next await.
AfterMerge(c) ==
    CASE c.site = "initial" ->
           \* POST: processEmailsAsync is called and not awaited; it runs up
           \* to the cache.get of its first updateSyncStatus; the response is
           \* returned.
           [ BeginMerge(c, "fetching") EXCEPT
               !.response = "processing", !.httpStatus = 200 ]
      [] c.site = "fetching"  -> [c EXCEPT !.pc = "fetch", !.site = "", !.phase = ""]
      [] c.site = "nomail"    -> Finished(c)
      [] c.site = "analyzing" ->
           [ c EXCEPT !.pc = "process", !.site = "", !.phase = "",
                      !.i = 0,
                      !.batchResults = [k \in 1..Min(BatchSize, c.emails) |-> Pending] ]
      [] c.site = "batch" ->
           IF c.i + BatchSize < c.emails
           THEN \* the 200 ms pause, then the next batch is launched
                [ c EXCEPT !.pc = "process", !.site = "", !.phase = "",
                           !.i = c.i + BatchSize,
                           !.batchResults =
                              [k \in 1..Min(BatchSize, c.emails - (c.i + BatchSize))
                                 |-> Pending] ]
           ELSE BeginMerge([c EXCEPT !.i = 0, !.batchResults = <<>>], "saving")
      [] c.site = "saving"    -> [c EXCEPT !.pc = "insert", !.site = "", !.phase = ""]
      [] c.site = "final"     -> Finished(c)
      [] c.site = "failed"    -> Finished(c)

\* updateSyncStatus, second half: await cache.set(key, updatedStatus, 300)
MergeSet(p) ==
    /\ call[p].pc = "merge"
    /\ call[p].phase = "set"
    /\ LET c == call[p]
           updatedStatus ==
               MergeStatus(OrDefault(c.currentStatus), Updates(c.site, c), now)
       IN \E o \in SetOutcomes(cache, updatedStatus, now, StatusTTL, MayFault) :
            /\ cache' = o.store
            /\ writer' = IF o.fault = 0 THEN p ELSE writer
            /\ failures' = failures + o.fault
            /\ call' = [call EXCEPT ![p] =
                           AfterMerge([c EXCEPT
                              !.currentStatus = <<>>,
                              !.intact = (@ \/ c.site = "initial") /\ o.fault = 0])]
    /\ UNCHANGED <<now, db, mailbox, ncalls, others>>

(* -------------------------------- POST --------------------------------- *)
\* mutant: the admission check never finds a run in progress
AlreadyProcessingNever(got) == FALSE

\* if (currentStatus?.isProcessing)
AlreadyProcessing(got) == got # <<>> /\ got[1].isProcessing

\* POST up to the end of its admission check: await cache.get, then either
\* the 409 response or the call of updateSyncStatus.
StartSync(p) ==
    /\ call[p].pc = "idle"
    /\ p <= ncalls
    /\ \E o \in GetOutcomes(cache, now, MayFault) :
         /\ cache' = o.store
         /\ writer' = IF o.store = <<>> THEN 0 ELSE writer
         /\ failures' = failures + o.fault
         /\ call' = [call EXCEPT ![p] =
               IF AlreadyProcessing(o.ret)
               THEN [@ EXCEPT !.pc = "rejected",
                              !.response = "already_processing",
                              !.httpStatus = 409]
               ELSE BeginMerge([@ EXCEPT !.lone = \A q \in Calls \ {p} :
                                             call[q].pc \in {"idle", "rejected", "done"}],
                               "initial")]
    /\ UNCHANGED <<now, db, mailbox, ncalls, others>>

(* -------------------------- processEmailsAsync ------------------------- *)
\* mutant: the exception is not caught: the run stops where it is
FailUncaught(c, message) == [c EXCEPT !.pc = "uncaught", !.error = message]

\* mutant: the message of the exception is not recorded
FailSilently(c, message) == BeginMerge(c, "failed")

\* An exception caught by the try block of processEmailsAsync: the catch
\* block calls updateSyncStatus with the message.
Fail(c, message) == BeginMerge([c EXCEPT !.error = message], "failed")

\* How many messages syncGmailEmails may return: all of them, or none
\* (nothing is unread).
FetchSizes(box) == {0, Len(box)}

\* await syncGmailEmails(...) returns the first m messages of the mail source
FetchReturns(p) ==
    /\ call[p].pc = "fetch"
    /\ \E m \in FetchSizes(mailbox) :
         call' = [call EXCEPT ![p] =
            IF m = 0
            THEN BeginMerge(@, "nomail")
            ELSE BeginMerge([@ EXCEPT !.emails = m,
                                      !.fate = [j \in 1..m |-> "pending"]],
                            "analyzing")]
    /\ UNCHANGED <<now, cache, writer, db, mailbox, ncalls, others, failures>>

\* await syncGmailEmails(...) throws
FetchThrows(p) ==
    /\ call[p].pc = "fetch"
    /\ call' = [call EXCEPT ![p] = Fail(@, "Failed to fetch Gmail emails.")]
    /\ UNCHANGED <<now, cache, writer, db, mailbox, ncalls, others, failures>>

\* prisma.task.findFirst of the per-message step: a task of the user whose
\* title contains the first 50 characters of the message id (or 'Untitled'),
\* created within the last 7 days.
IdFingerprint(email) ==
    IF Substring(email.id, 0, IdPrefixLen) # <<>>
    THEN Substring(email.id, 0, IdPrefixLen)
    ELSE Untitled

ExistingTask(rows, userId, email, t) ==
    \E row \in rows :
        /\ row.userId = userId
        /\ Contains(row.title, IdFingerprint(email))
        /\ row.createdAt >= t - DedupWindow

\* The records built from an analysis (title only: the other fields of a
\* record play no part in the orchestration).
TasksForEmail(analysis, userId) ==
    IF analysis.is_actionable
    THEN [k \in 1..Len(analysis.tasks) |->
             [title |-> analysis.tasks[k].title, status |-> "todo", userId |-> userId]]
    ELSE <<>>

Fulfilled(value) == [status |-> "fulfilled", value |-> value]
Rejected == [status |-> "rejected", value |-> <<>>]

\* The batch slots whose promise has not settled
Unsettled(c) == {k \in DOMAIN c.batchResults : c.batchResults[k].status = "pending"}

\* fate records, for the claims, what became of each message of the run
Settle(p, k, result, what) ==
    call' = [call EXCEPT ![p].batchResults[k] = result,
                         ![p].fate[call[p].i + k] = what]

\* One message of the current batch, found already processed
EmailSkipped(p, k) ==
    /\ call[p].pc = "process"
    /\ k \in Unsettled(call[p])
    /\ ExistingTask(db, UserId, Message(call[p].i + k, mailbox[call[p].i + k]), now)
    /\ Settle(p, k, Fulfilled(<<>>), "skipped")
    /\ UNCHANGED <<now, cache, writer, db, mailbox, ncalls, others, failures>>

\* One message of the current batch, analysed
EmailAnalysed(p, k) ==
    /\ call[p].pc = "process"
    /\ k \in Unsettled(call[p])
    /\ ~ExistingTask(db, UserId, Message(call[p].i + k, mailbox[call[p].i + k]), now)
    /\ Settle(p, k, Fulfilled(TasksForEmail(Extract(mailbox[call[p].i + k]), UserId)),
              "analysed")
    /\ UNCHANGED <<now, cache, writer, db, mailbox, ncalls, others, failures>>

\* mutant: the exception of one message escapes to the catch block of the run
EmailThrowsAborts(p, k) ==
    /\ call[p].pc = "process"
    /\ k \in Unsettled(call[p])
    /\ call' = [call EXCEPT ![p] =
          Fail([@ EXCEPT !.fate[call[p].i + k] = "thrown"],
               "Failed to analyze email content")]
    /\ UNCHANGED <<now, cache, writer, db, mailbox, ncalls, others, failures>>

\* One message of the current batch whose findFirst or emailAnalysisChain
\* throws: the message's promise rejects
EmailThrows(p, k) ==
    /\ call[p].pc = "process"
    /\ k \in Unsettled(call[p])
    /\ Settle(p, k, Rejected, "thrown")
    /\ UNCHANGED <<now, cache, writer, db, mailbox, ncalls, others, failures>>

\* mutant: every result counts as processed and its value is dropped
TallyCountsOnly(c, results, k) == [c EXCEPT !.processedEmails = @ + k]

\* batchResults.forEach: the counters and the buffer after the results
\* 1..k of the batch
RECURSIVE Tally(_, _, _)
Tally(c, results, k) ==
    IF k = 0 THEN c
    ELSE LET d == Tally(c, results, k - 1)
         IN IF results[k].status = "fulfilled"
            THEN [d EXCEPT !.allTasksToCreate = @ \o results[k].value,
                           !.processedEmails = @ + 1]
            ELSE [d EXCEPT !.failedEmails = @ + 1]

\* mutant: the loop goes on without awaiting the promises of the batch
BatchSettledEarly(p) ==
    /\ call[p].pc = "process"
    /\ call' = [call EXCEPT ![p] =
          BeginMerge(Tally(@, @.batchResults, Len(@.batchResults)), "batch")]
    /\ UNCHANGED <<now, cache, writer, db, mailbox, ncalls, others, failures>>

\* Promise.allSettled resolves: the results are tallied and the progress
\* update is started
BatchSettled(p) ==
    /\ call[p].pc = "process"
    /\ Unsettled(call[p]) = {}
    /\ call' = [call EXCEPT ![p] =
          BeginMerge(Tally(@, @.batchResults, Len(@.batchResults)), "batch")]
    /\ UNCHANGED <<now, cache, writer, db, mailbox, ncalls, others, failures>>

\* The rows prisma.task.createMany inserts for the buffer of call p: each
\* gets a fresh id and createdAt = now().
NewRows(p, data, t) ==
    { [id |-> <<p, k>>, title |-> data[k].title, userId |-> data[k].userId,
       status |-> data[k].status, createdAt |-> t] : k \in 1..Len(data) }

\* mutant: every record is inserted twice
CreateManyTwice(rows, new) ==
    rows \cup new \cup {[r EXCEPT !.id = <<r.id[1], r.id[2] + 100>>] : r \in new}

\* createMany with skipDuplicates: a row is skipped when a row with the same
\* unique key (the id) exists
CreateMany(rows, new) ==
    rows \cup {r \in new : ~\E old \in rows : old.id = r.id}

\* The save step: createMany when the buffer is not empty, then
\* cache.clearUserCache (which does not touch the status key), then the
\* final updateSyncStatus is started.
SaveTasks(p) ==
    /\ call[p].pc = "insert"
    /\ LET c == call[p] IN
         IF Len(c.allTasksToCreate) > 0
         THEN /\ db' = CreateMany(db, NewRows(p, c.allTasksToCreate, now))
              /\ call' = [call EXCEPT ![p] =
                    BeginMerge([c EXCEPT !.totalTasksCreated = Len(c.allTasksToCreate)],
                               "final")]
         ELSE /\ db' = db
              /\ call' = [call EXCEPT ![p] = BeginMerge(c, "final")]
    \* clearUserCache: redis.del of the task list key; an error is logged
    /\ listCache' \in {<<>>, listCache}
    /\ UNCHANGED <<now, cache, writer, mailbox, ncalls, failures,
                   extraction, clientVars, listReads, requests>>

\* mutant: createMany throws after it has inserted the first record
SaveThrowsPartial(p) ==
    /\ call[p].pc = "insert"
    /\ Len(call[p].allTasksToCreate) > 0
    /\ MayThrow
    /\ failures' = failures + 1
    /\ db' = CreateMany(db, NewRows(p, SubSeq(call[p].allTasksToCreate, 1, 1), now))
    /\ call' = [call EXCEPT ![p] = Fail(@, "createMany failed")]
    /\ UNCHANGED <<now, cache, writer, mailbox, ncalls, others>>

\* createMany throws
SaveThrows(p) ==
    /\ call[p].pc = "insert"
    /\ Len(call[p].allTasksToCreate) > 0
    /\ MayThrow
    /\ failures' = failures + 1
    /\ call' = [call EXCEPT ![p] = Fail(@, "createMany failed")]
    /\ UNCHANGED <<now, cache, writer, db, mailbox, ncalls, others>>

(* ------------------------------- time ---------------------------------- *)
\* Time passes; Redis drops a key whose TTL has elapsed.
Tick ==
    /\ now + TickSeconds <= MaxTime
    /\ now' = now + TickSeconds
    /\ cache' = IF Live(cache, now') = <<>> THEN <<>> ELSE cache
    /\ writer' = IF cache' = <<>> THEN 0 ELSE writer
    /\ listCache' = IF Live(listCache, now') = <<>> THEN <<>> ELSE listCache
    /\ UNCHANGED <<db, mailbox, ncalls, call, failures,
                   extraction, clientVars, listReads, requests>>

Next ==
    \/ \E p \in Calls : StartSync(p)
    \/ \E p \in Calls : MergeGet(p)
    \/ \E p \in Calls : MergeSet(p)
    \/ \E p \in Calls : FetchReturns(p)
    \/ \E p \in Calls : FetchThrows(p)
    \/ \E p \in Calls : \E k \in 1..BatchSize : EmailSkipped(p, k)
    \/ \E p \in Calls : \E k \in 1..BatchSize : EmailAnalysed(p, k)
    \/ \E p \in Calls : \E k \in 1..BatchSize : EmailThrows(p, k)
    \/ \E p \in Calls : BatchSettled(p)
    \/ \E p \in Calls : SaveTasks(p)
    \/ \E p \in Calls : SaveThrows(p)
    \/ Tick

Spec == Init /\ [][Next]_vars

\* The event loop runs a continuation once the promise it awaits has
\* settled, and every external call of a run returns or throws: each step of
\* a run that stays possible is taken.  Time need not pass.
RunFairness ==
    \A p \in Calls :
        /\ WF_vars(MergeGet(p))
        /\ WF_vars(MergeSet(p))
        /\ WF_vars(FetchReturns(p) \/ FetchThrows(p))
        /\ \A k \in 1..BatchSize :
              WF_vars(EmailSkipped(p, k) \/ EmailAnalysed(p, k) \/ EmailThrows(p, k))
        /\ WF_vars(BatchSettled(p))
        /\ WF_vars(SaveTasks(p) \/ SaveThrows(p))

\* The rows a sync of the user completed earlier has left in the task table
EarlierRows == NewRows(0, TasksForEmail(Extract("refs1"), UserId), 0)

\* The runs of one call, over every mailbox, the task table empty or holding
\* the rows of an earlier sync
LiveInit ==
    /\ now = 0
    /\ cache = <<>>
    /\ db \in { {}, EarlierRows }
    /\ mailbox \in Mailboxes
    /\ ncalls = 1
    /\ call = [p \in Calls |-> NewCall]
    /\ failures = 0
    /\ writer = 0
    /\ extraction = NoAnalysis
    /\ NoClient
    /\ NoTaskTraffic

FairSpec == LiveInit /\ [][Next]_vars /\ RunFairness

(* ------------------- the per-message step in detail -------------------- *)
\* One call of emailAnalysisChain and the building of the task records from
\* its result (the callback of batch.map), with the priorities and the
\* deadlines of the tasks.  A deadline is the string the model returned:
\* none (null or empty), not a date, or an ISO date, given by its day number
\* and the seconds into that day.
DayLen == 86400

NoDeadline == [kind |-> "none", day |-> 0, secs |-> 0]
BadDeadline == [kind |-> "bad", day |-> 0, secs |-> 0]
IsoDeadline(day, secs) == [kind |-> "iso", day |-> day, secs |-> secs]

DeadlineStrings ==
    {NoDeadline, BadDeadline}
    \cup { IsoDeadline(day, secs) :
             day \in (0 - MaxDay)..MaxDay, secs \in {0, TickSeconds, 2 * TickSeconds} }

\* What the model may return for one task
RawTasks ==
    [ priority : (1 - MaxOver)..(4 + MaxOver), deadline : DeadlineStrings ]

RECURSIVE SeqsUpTo(_, _)
SeqsUpTo(S, n) ==
    IF n = 0 THEN {<<>>}
    ELSE LET shorter == SeqsUpTo(S, n - 1)
         IN shorter \cup { Append(q, x) : q \in {r \in shorter : Len(r) = n - 1}, x \in S }

\* new Date(string): the time in seconds, or an invalid date (getTime() is NaN)
ParseDate(str) ==
    IF str.kind = "iso"
    THEN [valid |-> TRUE, time |-> str.day * DayLen + str.secs]
    ELSE [valid |-> FALSE, time |-> 0]

\* date.toISOString().split('T')[0]: the day of the date
IsoDay(t) == IsoDeadline(t \div DayLen, 0)

\* a >= b on Date objects: false when either is an invalid date
DateGE(a, b) == a.valid /\ b.valid /\ a.time >= b.time

\* emailAnalysisChain, the predicate of the post-processing filter
KeepTask(task, currentDateStr) ==
    IF task.deadline.kind = "none"
    THEN TRUE
    ELSE LET taskDeadline == ParseDate(task.deadline)
             isValidDate == taskDeadline.valid
             isFutureOrToday == DateGE(taskDeadline, ParseDate(currentDateStr))
         IN isValidDate /\ isFutureOrToday

\* emailAnalysisChain, what the filter does to the priority of a task it keeps
FilterClamp(task) ==
    IF task.deadline.kind = "none"
    THEN task
    ELSE [task EXCEPT !.priority = IF @ < 1 THEN 1 ELSE IF @ > 4 THEN 4 ELSE @]

RECURSIVE PostProcess(_, _)
PostProcess(tasks, currentDateStr) ==
    IF tasks = <<>> THEN <<>>
    ELSE LET rest == PostProcess(Tail(tasks), currentDateStr)
         IN IF KeepTask(Head(tasks), currentDateStr)
            THEN <<FilterClamp(Head(tasks))>> \o rest
            ELSE rest

\* mutant: the priority is stored as returned
MappedPriorityUnclamped(priority) == priority

\* Math.max(1, Math.min(4, task.priority))
MappedPriority(priority) == Max(1, Min(4, priority))

\* mutant: the deadline is stored whenever it parses
ValidDeadlineUnchecked(task, currentDate) ==
    IF task.deadline.kind = "none" \/ ~ParseDate(task.deadline).valid
    THEN <<>>
    ELSE << ParseDate(task.deadline).time >>

\* validDeadline: <<>> for null, else the time of the deadline
ValidDeadline(task, currentDate) ==
    IF task.deadline.kind = "none"
    THEN <<>>
    ELSE LET deadlineDate == ParseDate(task.deadline)
         IN IF deadlineDate.valid /\ deadlineDate.time >= currentDate
            THEN << deadlineDate.time >>
            ELSE <<>>

\* tasksForEmail.push({...}) for each task of the analysis
TaskRecords(tasks, userId, currentDate) ==
    [ k \in 1..Len(tasks) |->
        [ priority |-> MappedPriority(tasks[k].priority),
          deadline |-> ValidDeadline(tasks[k], currentDate),
          status |-> "todo",
          userId |-> userId ] ]

\* emailAnalysisChain is called: currentDateStr is taken, the model is invoked
AnalysisInvoked ==
    /\ extraction.pc = "called"
    /\ extraction' = [extraction EXCEPT !.pc = "invoked", !.currentDateStr = IsoDay(now)]
    /\ UNCHANGED <<now, syncVars, clientVars, taskVars>>

\* chain.invoke returns: the tasks are filtered and the analysis is returned
AnalysisReturned ==
    /\ extraction.pc = "invoked"
    /\ extraction' = [extraction EXCEPT
          !.pc = "returned",
          !.tasks = PostProcess(extraction.raw, extraction.currentDateStr)]
    /\ UNCHANGED <<now, syncVars, clientVars, taskVars>>

\* the callback builds the records of an actionable analysis
RecordsBuilt ==
    /\ extraction.pc = "returned"
    /\ extraction' = [extraction EXCEPT
          !.pc = "built",
          !.currentDate = now,
          !.tasksForEmail = IF Len(extraction.tasks) > 0
                            THEN TaskRecords(extraction.tasks, UserId, now)
                            ELSE <<>>]
    /\ UNCHANGED <<now, syncVars, clientVars, taskVars>>

ExtractInit ==
    /\ now = 0
    /\ cache = <<>>
    /\ db = {}
    /\ mailbox = <<"two">>
    /\ ncalls = 0
    /\ call = [p \in Calls |-> NewCall]
    /\ failures = 0
    /\ writer = 0
    /\ \E raw \in SeqsUpTo(RawTasks, MaxTasks) \ {<<>>} :
          extraction = [NoAnalysis EXCEPT !.pc = "called", !.raw = raw,
                                        !.currentDateStr = IsoDay(0)]
    /\ NoClient
    /\ NoTaskTraffic

ExtractNext ==
    \/ AnalysisInvoked
    \/ AnalysisReturned
    \/ RecordsBuilt
    \/ Tick

SpecExtract == ExtractInit /\ [][ExtractNext]_vars

(* ------------------------ GET /api/sync/status ------------------------- *)
\* mutant: the value of cache.get is returned as it is, null included
StatusOrNull(got) == IF got = <<>> THEN <<>> ELSE got[1]

\* const syncStatus = await cache.get(...) || { the zeroed default }
StatusOrDefault(got) == IF got = <<>> THEN DefaultStatus ELSE got[1]

\* The route for a signed-in user: 200 with the status read or the default;
\* the Redis read may fail as in CacheService.get.  When the session lookup
\* finds no user the route answers 401 before it reads anything.
StatusOutcomes(store, t, mayFail) ==
    { [ resp |-> [ok |-> TRUE, code |-> 200, body |-> StatusOrDefault(o.ret)],
        store |-> o.store, fault |-> o.fault ] :
        o \in GetOutcomes(store, t, mayFail) }
    \cup
    IF mayFail
    THEN { [ resp |-> [ok |-> FALSE, code |-> 401, body |-> <<>>],
             store |-> store, fault |-> 1 ] }
    ELSE {}

\* The route handles one request and answers with o.resp
StatusRoute(o) ==
    /\ cache' = o.store
    /\ writer' = IF o.store = <<>> THEN 0 ELSE writer
    /\ failures' = failures + o.fault
    /\ UNCHANGED <<now, db, mailbox, ncalls, call>>

(* ------------------- SyncManager: status and listeners ------------------ *)
\* this.status = { ...this.status, ...updates }
SpreadStatus(current, updates) == updates @@ current

\* mutant: every distinct callback is invoked once
NotifyDistinct(ls, s, prev) ==
    [ round |-> 1 - prev.round,
      count |-> [f \in Callbacks |-> IF \E i \in DOMAIN ls : ls[i] = f THEN 1 ELSE 0],
      with  |-> s ]

\* notify(): listeners.forEach(listener => listener(this.status))
Notify(ls, s, prev) ==
    [ round |-> 1 - prev.round,
      count |-> [f \in Callbacks |-> Cardinality({i \in DOMAIN ls : ls[i] = f})],
      with  |-> s ]

\* subscribe(callback): push, call the callback with the current status,
\* return the unsubscribe function
Subscribe(f) ==
    /\ Len(unsubscribes) < MaxSubscribes
    /\ listeners' = Append(listeners, f)
    /\ notified' = [ round |-> 1 - notified.round,
                     count |-> [g \in Callbacks |-> IF g = f THEN 1 ELSE 0],
                     with  |-> status ]
    /\ unsubscribes' = Append(unsubscribes, [callback |-> f, called |-> FALSE])
    /\ UNCHANGED <<now, syncVars, extraction, taskVars, status, trigger, poll, check>>

\* The function subscribe returned is called:
\* this.listeners = this.listeners.filter(l => l !== callback)
Unsubscribe(h) ==
    /\ h \in DOMAIN unsubscribes
    /\ listeners' = SelectSeq(listeners, LAMBDA l : l # unsubscribes[h].callback)
    /\ unsubscribes' = [unsubscribes EXCEPT ![h].called = TRUE]
    /\ UNCHANGED <<now, syncVars, extraction, taskVars, status, notified, trigger, poll, check>>

\* checkSyncStatus() is called: its request is sent
CheckSyncStatus ==
    /\ check.pc = "idle"
    /\ check' = [check EXCEPT !.pc = "fetching"]
    /\ UNCHANGED <<now, syncVars, extraction, taskVars, status, listeners, unsubscribes,
                   notified, trigger, poll>>

\* The server handles the request of checkSyncStatus
CheckHandled ==
    /\ check.pc = "fetching"
    /\ \E o \in StatusOutcomes(cache, now, MayFault) :
         /\ StatusRoute(o)
         /\ check' = [pc |-> "responded", resp |-> o.resp]
    /\ UNCHANGED <<extraction, taskVars, status, listeners, unsubscribes, notified,
                   trigger, poll>>

\* checkSyncStatus, after await fetch: an ok response is merged into the
\* cached status and the listeners are notified
CheckReturns ==
    /\ check.pc = "responded"
    /\ IF check.resp.ok
       THEN /\ status' = SpreadStatus(status, check.resp.body)
            /\ notified' = Notify(listeners, status', notified)
       ELSE UNCHANGED <<status, notified>>
    /\ check' = NoCheck
    /\ UNCHANGED <<now, syncVars, extraction, taskVars, listeners, unsubscribes, trigger, poll>>

\* checkSyncStatus: fetch rejects; the error is logged
CheckThrows ==
    /\ check.pc = "fetching"
    /\ MayFault
    /\ failures' = failures + 1
    /\ check' = NoCheck
    /\ UNCHANGED <<now, cache, db, mailbox, ncalls, call, writer, extraction, taskVars,
                   status, listeners, unsubscribes, notified, trigger, poll>>

\* A status entry an earlier run of the user has left in the store
LeftEntry ==
    [ val |-> MergeStatus(DefaultStatus, Updates("nomail", NewCall), 0),
      expiresAt |-> StatusTTL ]

\* The page components and checkSyncStatus, no sync being started
SubscribersInit ==
    /\ now = 0
    /\ cache \in { <<>>, << LeftEntry >> }
    /\ db = {}
    /\ mailbox = <<"two">>
    /\ ncalls = 0
    /\ call = [p \in Calls |-> NewCall]
    /\ failures = 0
    /\ writer = 0
    /\ extraction = NoAnalysis
    /\ NoClient
    /\ NoTaskTraffic

SubscribersNext ==
    \/ \E f \in Callbacks : Subscribe(f)
    \/ \E h \in 1..MaxSubscribes : Unsubscribe(h)
    \/ CheckSyncStatus
    \/ CheckHandled
    \/ CheckReturns
    \/ CheckThrows
    \/ Tick

SpecSubscribers == SubscribersInit /\ [][SubscribersNext]_vars

(* ------------------ SyncManager: triggerSync and polling ---------------- *)
\* mutant: triggerSync does not look at the cached status
SyncInProgressNever(s) == FALSE

\* if (this.status.isProcessing) return false
SyncInProgress(s) == s.isProcessing

\* The update triggerSync makes before it sends its request
StartingUpdates ==
    [ isProcessing |-> TRUE, progress |-> 0,
      currentStep |-> "Starting sync...", error |-> NoError ]

\* mutant: the catch block records the error and leaves isProcessing as it is
SyncFailedUpdatesKeepFlag(message) == [ error |-> message ]

\* The update triggerSync makes in its catch block
SyncFailedUpdates(message) == [ isProcessing |-> FALSE, error |-> message ]

\* The POST requests sent so far
Posts == Cardinality({t \in Triggers : trigger[t].post # 0})

\* triggerSync() is called: refused at once while a sync is known to be in
\* progress, else the cached status is updated and the POST is sent
TriggerSync(t) ==
    /\ trigger[t].pc = "idle"
    /\ \A u \in Triggers : u < t => trigger[u].pc # "idle"
    /\ \/ /\ SyncInProgress(status)
          /\ trigger' = [trigger EXCEPT ![t] =
                            [pc |-> "returned", result |-> "false", post |-> 0]]
          /\ UNCHANGED <<status, notified>>
       \/ /\ ~SyncInProgress(status)
          /\ status' = SpreadStatus(status, StartingUpdates)
          /\ notified' = Notify(listeners, status', notified)
          /\ trigger' = [trigger EXCEPT ![t] =
                            [pc |-> "posting", result |-> "", post |-> Posts + 1]]
    /\ UNCHANGED <<now, syncVars, extraction, taskVars, listeners, unsubscribes, poll, check>>

\* The server handles the POST of a triggerSync call (a POST beyond the
\* ncalls the server handles stays unanswered or fails)
PostHandled(p) ==
    /\ \E t \in Triggers : trigger[t].pc = "posting" /\ trigger[t].post = p
    /\ StartSync(p)

\* mutant: a further read is scheduled whatever the read returned
PollAgainAlways(isProcessing) == 1

\* if (status.isProcessing) setTimeout(poll, ...): the timers set
PollAgain(isProcessing) == IF isProcessing THEN 1 ELSE 0

\* poll() is called: its request is sent
PollCalled(l) == [l EXCEPT !.pc = "fetching", !.resp = NoResponse]

\* triggerSync, after await fetch: an ok response starts the polling loop and
\* true is returned; another response throws into the catch block
TriggerResponse(t) ==
    /\ trigger[t].pc = "posting"
    /\ LET p == trigger[t].post
       IN /\ call[p].response # ""
          /\ IF call[p].httpStatus = 200
             THEN /\ poll' = [poll EXCEPT ![p] = PollCalled(@)]
                  /\ trigger' = [trigger EXCEPT ![t] =
                                    [@ EXCEPT !.pc = "returned", !.result = "true"]]
                  /\ UNCHANGED <<status, notified>>
             ELSE /\ status' = SpreadStatus(status, SyncFailedUpdates("Sync failed"))
                  /\ notified' = Notify(listeners, status', notified)
                  /\ trigger' = [trigger EXCEPT ![t] =
                                    [@ EXCEPT !.pc = "returned", !.result = "false"]]
                  /\ UNCHANGED poll
    /\ UNCHANGED <<now, syncVars, extraction, taskVars, listeners, unsubscribes, check>>

\* triggerSync: fetch rejects, or the route answers with an error status
\* without looking at the sync status (401, 429, 500)
TriggerThrows(t) ==
    /\ trigger[t].pc = "posting"
    /\ MayFault
    /\ failures' = failures + 1
    /\ \E message \in {"Failed to fetch", "Sync failed"} :
          status' = SpreadStatus(status, SyncFailedUpdates(message))
    /\ notified' = Notify(listeners, status', notified)
    /\ trigger' = [trigger EXCEPT ![t] =
                      [@ EXCEPT !.pc = "returned", !.result = "false"]]
    /\ UNCHANGED <<now, cache, db, mailbox, ncalls, call, writer, extraction, taskVars,
                   listeners, unsubscribes, poll, check>>

\* The server handles the status request of a polling loop
PollHandled(p) ==
    /\ poll[p].pc = "fetching"
    /\ \E o \in StatusOutcomes(cache, now, MayFault) :
         /\ StatusRoute(o)
         /\ poll' = [poll EXCEPT ![p] = [@ EXCEPT !.pc = "responded", !.resp = o.resp]]
    /\ UNCHANGED <<extraction, taskVars, status, listeners, unsubscribes, notified,
                   trigger, check>>

\* poll, after await fetch: an ok response is merged into the cached status
\* and, when it says the sync is processing, a timer for the next poll is set
PollResponse(p) ==
    /\ poll[p].pc = "responded"
    /\ IF poll[p].resp.ok
       THEN /\ status' = SpreadStatus(status, poll[p].resp.body)
            /\ notified' = Notify(listeners, status', notified)
            /\ poll' = [poll EXCEPT ![p] =
                           [@ EXCEPT !.pc = "idle",
                                     !.timers = @ + PollAgain(poll[p].resp.body.isProcessing),
                                     !.reads = Min(@ + 1, MaxReads)]]
       ELSE /\ poll' = [poll EXCEPT ![p] = [@ EXCEPT !.pc = "idle"]]
            /\ UNCHANGED <<status, notified>>
    /\ UNCHANGED <<now, syncVars, extraction, taskVars, listeners, unsubscribes, trigger, check>>

\* poll: fetch (or response.json) rejects; the catch block sets a timer when
\* the cached status says the sync is processing
PollThrows(p) ==
    /\ poll[p].pc \in {"fetching", "responded"}
    /\ MayFault
    /\ failures' = failures + 1
    /\ poll' = [poll EXCEPT ![p] =
                   [@ EXCEPT !.pc = "idle",
                             !.timers = @ + PollAgain(status.isProcessing)]]
    /\ UNCHANGED <<now, cache, db, mailbox, ncalls, call, writer, extraction, taskVars,
                   status, listeners, unsubscribes, notified, trigger, check>>

\* A timer of the loop fires: poll is called
PollTimer(p) ==
    /\ poll[p].pc = "idle"
    /\ poll[p].timers > 0
    /\ poll' = [poll EXCEPT ![p] = PollCalled([@ EXCEPT !.timers = @ - 1])]
    /\ UNCHANGED <<now, syncVars, extraction, taskVars, status, listeners, unsubscribes,
                   notified, trigger, check>>

\* One page component has subscribed; the user starts one sync over a
\* mailbox of one message, none of whose tasks is in the task table
PollingInit ==
    /\ now = 0
    /\ cache = <<>>
    /\ db = {}
    /\ mailbox = <<"two">>
    /\ ncalls = 1
    /\ call = [p \in Calls |-> NewCall]
    /\ failures = 0
    /\ writer = 0
    /\ extraction = NoAnalysis
    /\ status = ClientDefault
    /\ listeners = <<1>>
    /\ unsubscribes = << [callback |-> 1, called |-> FALSE] >>
    /\ notified = [NoRound EXCEPT !.round = 1, !.count[1] = 1]
    /\ trigger = [t \in Triggers |-> NoTrigger]
    /\ poll = [p \in Calls |-> NoPoll]
    /\ check = NoCheck
    /\ NoTaskTraffic

PollingNext ==
    \/ \E t \in Triggers : TriggerSync(t)
    \/ \E p \in Calls : PostHandled(p)
    \/ \E t \in Triggers : TriggerResponse(t)
    \/ \E t \in Triggers : TriggerThrows(t)
    \/ \E p \in Calls : MergeGet(p)
    \/ \E p \in Calls : MergeSet(p)
    \/ \E p \in Calls : FetchReturns(p)
    \/ \E p \in Calls : FetchThrows(p)
    \/ \E p \in Calls : \E k \in 1..BatchSize : EmailAnalysed(p, k)
    \/ \E p \in Calls : \E k \in 1..BatchSize : EmailThrows(p, k)
    \/ \E p \in Calls : BatchSettled(p)
    \/ \E p \in Calls : SaveTasks(p)
    \/ \E p \in Calls : SaveThrows(p)
    \/ \E p \in Calls : PollHandled(p)
    \/ \E p \in Calls : PollResponse(p)
    \/ \E p \in Calls : PollThrows(p)
    \/ \E p \in Calls : PollTimer(p)
    \/ Tick

SpecPolling == PollingInit /\ [][PollingNext]_vars

(* ------------- SyncManager: a session of the dashboard ----------------- *)
\* The user starts syncs from the page, twice at most; the mail source holds
\* no message, so that every run ends by the no-mail write
SessionInit ==
    /\ now = 0
    /\ cache = <<>>
    /\ db = {}
    /\ mailbox = <<>>
    /\ ncalls = MaxCalls
    /\ call = [p \in Calls |-> NewCall]
    /\ failures = 0
    /\ writer = 0
    /\ extraction = NoAnalysis
    /\ NoClient
    /\ NoTaskTraffic

SessionNext ==
    \/ \E t \in Triggers : TriggerSync(t)
    \/ \E p \in Calls : PostHandled(p)
    \/ \E t \in Triggers : TriggerResponse(t)
    \/ \E t \in Triggers : TriggerThrows(t)
    \/ \E p \in Calls : MergeGet(p)
    \/ \E p \in Calls : MergeSet(p)
    \/ \E p \in Calls : FetchReturns(p)
    \/ \E p \in Calls : FetchThrows(p)
    \/ \E p \in Calls : PollHandled(p)
    \/ \E p \in Calls : PollResponse(p)
    \/ \E p \in Calls : PollThrows(p)
    \/ \E p \in Calls : PollTimer(p)

SpecSession == SessionInit /\ [][SessionNext]_vars

\* The page components (DashboardContent.loadInitialData, useLoginSync) call
\* checkSyncStatus and triggerSync; no request and no store operation fails
DashboardInit ==
    /\ now = 0
    /\ cache = <<>>
    /\ db = {}
    /\ mailbox = <<>>
    /\ ncalls = MaxCalls
    /\ call = [p \in Calls |-> NewCall]
    /\ failures = MaxFailures
    /\ writer = 0
    /\ extraction = NoAnalysis
    /\ NoClient
    /\ NoTaskTraffic

DashboardNext ==
    \/ CheckSyncStatus
    \/ CheckHandled
    \/ CheckReturns
    \/ \E t \in Triggers : TriggerSync(t)
    \/ \E p \in Calls : PostHandled(p)
    \/ \E t \in Triggers : TriggerResponse(t)
    \/ \E p \in Calls : MergeGet(p)
    \/ \E p \in Calls : MergeSet(p)
    \/ \E p \in Calls : FetchReturns(p)
    \/ \E p \in Calls : PollHandled(p)
    \/ \E p \in Calls : PollResponse(p)
    \/ \E p \in Calls : PollTimer(p)

SpecDashboard == DashboardInit /\ [][DashboardNext]_vars

(* --------------------------- GET /api/tasks ---------------------------- *)
\* The runs that have ended with the success write and whose terminal status
\* a status read obtains now
SucceededRuns ==
    { p \in Calls :
        /\ call[p].pc = "done"
        /\ call[p].site = "final"
        /\ Live(cache, now) # <<>>
        /\ ~Live(cache, now)[1].isProcessing
        /\ Live(cache, now)[1].currentStep = "Sync completed successfully!" }

\* prisma.task.findMany({ where: { userId, ... } }): the rows of the user (no
\* row of the model has a deadline; the order of the list plays no part)
FindMany(rows, userId) == {row \in rows : row.userId = userId}

\* GET up to its first database call: await cache.get of the list key; a hit
\* is returned, a miss goes on to findMany
ListGet(r) ==
    /\ listReads[r].pc = "none"
    /\ \A q \in ListReads : q < r => listReads[q].pc # "none"
    /\ \E o \in GetOutcomes(listCache, now, MayFault) :
         /\ listCache' = o.store
         /\ failures' = failures + o.fault
         /\ listReads' = [listReads EXCEPT ![r] =
               IF o.ret # <<>>
               THEN [pc |-> "done", tasks |-> o.ret[1], code |-> 200,
                     after |-> SucceededRuns]
               ELSE [pc |-> "find", tasks |-> {}, code |-> 0,
                     after |-> SucceededRuns]]
    /\ UNCHANGED <<now, cache, db, mailbox, ncalls, call, writer,
                   extraction, clientVars, requests>>

\* await prisma.task.findMany(...)
ListFind(r) ==
    /\ listReads[r].pc = "find"
    /\ listReads' = [listReads EXCEPT ![r] =
                        [@ EXCEPT !.pc = "set", !.tasks = FindMany(db, UserId)]]
    /\ UNCHANGED <<now, syncVars, extraction, clientVars, listCache, requests>>

\* await cache.set(key, tasks, CACHE_TTL.MEDIUM), then the response
ListSet(r) ==
    /\ listReads[r].pc = "set"
    /\ \E o \in SetOutcomes(listCache, listReads[r].tasks, now, ListTTL, MayFault) :
         /\ listCache' = o.store
         /\ failures' = failures + o.fault
    /\ listReads' = [listReads EXCEPT ![r] = [@ EXCEPT !.pc = "done", !.code = 200]]
    /\ UNCHANGED <<now, cache, db, mailbox, ncalls, call, writer,
                   extraction, clientVars, requests>>

\* One sync of the user over a mailbox of one message, and task-list reads
TaskListInit ==
    /\ now = 0
    /\ cache = <<>>
    /\ db = {}
    /\ mailbox = <<"two">>
    /\ ncalls = 1
    /\ call = [p \in Calls |-> NewCall]
    /\ failures = 0
    /\ writer = 0
    /\ extraction = NoAnalysis
    /\ NoClient
    /\ NoTaskTraffic

TaskListNext ==
    \/ \E p \in Calls : StartSync(p)
    \/ \E p \in Calls : MergeGet(p)
    \/ \E p \in Calls : MergeSet(p)
    \/ \E p \in Calls : FetchReturns(p)
    \/ \E p \in Calls : FetchThrows(p)
    \/ \E p \in Calls : \E k \in 1..BatchSize : EmailAnalysed(p, k)
    \/ \E p \in Calls : \E k \in 1..BatchSize : EmailThrows(p, k)
    \/ \E p \in Calls : BatchSettled(p)
    \/ \E p \in Calls : SaveTasks(p)
    \/ \E p \in Calls : SaveThrows(p)
    \/ \E r \in ListReads : ListGet(r)
    \/ \E r \in ListReads : ListFind(r)
    \/ \E r \in ListReads : ListSet(r)
    \/ Tick

SpecTaskList == TaskListInit /\ [][TaskListNext]_vars

(* ----------------- PATCH and DELETE /api/tasks/<id> -------------------- *)
\* A second signed-in user
OtherUser == "u2"

Users == {UserId, OtherUser}

\* The priority field is not in the request body
NoPriority == -1

\* The task of the other user, and an id no task has
OtherTaskId == <<0, 1>>
MissingTaskId == <<0, 0>>

OtherTask ==
    [ id |-> OtherTaskId, userId |-> OtherUser, status |-> "todo",
      priority |-> 3, deadline |-> <<>> ]

\* The rows createMany inserts for the records built from the message
SavedRows(records) ==
    { [ id |-> <<1, k>>, userId |-> records[k].userId, status |-> records[k].status,
        priority |-> records[k].priority, deadline |-> records[k].deadline ] :
        k \in 1..Len(records) }

\* The task ids a request may name
TaskIds == {OtherTaskId, MissingTaskId} \cup { <<1, k>> : k \in 1..MaxTasks }

\* The request bodies of PATCH
Bodies ==
    { [status |-> "done", priority |-> q] :
        q \in {NoPriority, 1 - MaxOver, 1, 4, 4 + MaxOver, 10, 10 + MaxOver} }
    \cup { [status |-> "bogus", priority |-> NoPriority] }

\* taskUpdateSchema.parse(body) succeeds: status is one of the three values,
\* priority is absent or a number from 1 to 10
ValidUpdate(data) ==
    /\ data.status \in {"todo", "in_progress", "done"}
    /\ data.priority = NoPriority \/ (data.priority >= 1 /\ data.priority <= 10)

\* mutant: the task is looked up by its id alone
FindFirstById(rows, id, userId) == {row \in rows : row.id = id}

\* prisma.task.findFirst({ where: { id, userId } })
FindFirst(rows, id, userId) == {row \in rows : row.id = id /\ row.userId = userId}

\* prisma.task.update({ where: { id }, data }): the row with the validated
\* fields overwritten
UpdatedRow(row, data) ==
    [row EXCEPT !.status = data.status,
                !.priority = IF data.priority = NoPriority THEN @ ELSE data.priority]

\* The sync run stores the records built from the message (createMany)
RecordsSaved ==
    /\ extraction.pc = "built"
    /\ extraction' = [extraction EXCEPT !.pc = "saved"]
    /\ db' = db \cup SavedRows(extraction.tasksForEmail)
    /\ UNCHANGED <<now, cache, mailbox, ncalls, call, failures, writer,
                   clientVars, taskVars>>

\* PATCH up to its update call: the body is validated (a body that does not
\* validate is answered 500), then await findFirst by id and user: 404 when
\* it finds nothing
PatchLookup(r, u, id, data) ==
    /\ requests[r].pc = "none"
    /\ \A q \in Requests : q < r => requests[q].pc # "none"
    /\ requests' = [requests EXCEPT ![r] =
          [ op |-> "PATCH", user |-> u, id |-> id, data |-> data,
            pc |-> IF ValidUpdate(data) /\ FindFirst(db, id, u) # {}
                   THEN "write" ELSE "done",
            code |-> IF ~ValidUpdate(data) THEN 500
                     ELSE IF FindFirst(db, id, u) = {} THEN 404 ELSE 0 ]]
    /\ UNCHANGED <<now, syncVars, extraction, clientVars, listCache, listReads>>

\* PATCH: await prisma.task.update by id; it throws (500) when no row has the id
PatchUpdate(r) ==
    /\ requests[r].pc = "write"
    /\ LET found == {row \in db : row.id = requests[r].id}
       IN /\ db' = (db \ found) \cup {UpdatedRow(row, requests[r].data) : row \in found}
          /\ requests' = [requests EXCEPT ![r] =
                [@ EXCEPT !.pc = "done", !.code = IF found = {} THEN 500 ELSE 200]]
    /\ UNCHANGED <<now, cache, mailbox, ncalls, call, failures, writer,
                   extraction, clientVars, listCache, listReads>>

\* DELETE up to its delete call: await findFirst by id and user
DeleteLookup(r, u, id) ==
    /\ requests[r].pc = "none"
    /\ \A q \in Requests : q < r => requests[q].pc # "none"
    /\ requests' = [requests EXCEPT ![r] =
          [ op |-> "DELETE", user |-> u, id |-> id, data |-> <<>>,
            pc |-> IF FindFirst(db, id, u) # {} THEN "remove" ELSE "done",
            code |-> IF FindFirst(db, id, u) = {} THEN 404 ELSE 0 ]]
    /\ UNCHANGED <<now, syncVars, extraction, clientVars, listCache, listReads>>

\* DELETE: await prisma.task.delete by id; it throws (500) when no row has
\* the id
DeleteRemove(r) ==
    /\ requests[r].pc = "remove"
    /\ LET found == {row \in db : row.id = requests[r].id}
       IN /\ db' = db \ found
          /\ requests' = [requests EXCEPT ![r] =
                [@ EXCEPT !.pc = "done", !.code = IF found = {} THEN 500 ELSE 200]]
    /\ UNCHANGED <<now, cache, mailbox, ncalls, call, failures, writer,
                   extraction, clientVars, listCache, listReads>>

\* The task table holds a task of another user; a sync analyses one message
\* and stores its tasks; two users send update and delete requests
TaskApiInit ==
    /\ now = 0
    /\ cache = <<>>
    /\ db = {OtherTask}
    /\ mailbox = <<"two">>
    /\ ncalls = 0
    /\ call = [p \in Calls |-> NewCall]
    /\ failures = 0
    /\ writer = 0
    /\ \E raw \in SeqsUpTo({t \in RawTasks : t.deadline = NoDeadline}, MaxTasks) \ {<<>>} :
          extraction = [NoAnalysis EXCEPT !.pc = "called", !.raw = raw,
                                        !.currentDateStr = IsoDay(0)]
    /\ NoClient
    /\ NoTaskTraffic

TaskApiNext ==
    \/ AnalysisInvoked
    \/ AnalysisReturned
    \/ RecordsBuilt
    \/ RecordsSaved
    \/ \E r \in Requests, u \in Users, id \in TaskIds, data \in Bodies :
          PatchLookup(r, u, id, data)
    \/ \E r \in Requests : PatchUpdate(r)
    \/ \E r \in Requests, u \in Users, id \in TaskIds : DeleteLookup(r, u, id)
    \/ \E r \in Requests : DeleteRemove(r)

SpecTaskApi == TaskApiInit /\ [][TaskApiNext]_vars

(* ============================== claims ================================= *)
\* A call accepted by POST whose run has not made its terminal status write
InFlight(p) == call[p].response = "processing" /\ call[p].pc # "done"

\* What a reader of the status key obtains now
Stored == Live(cache, now)

\* C1 (as claimed): in every reachable state at most one sync run of the
\* user is in flight, whatever the interleaving of the start-sync calls.
C1_AtMostOneRunInFlight ==
    Cardinality({p \in Calls : InFlight(p)}) <= 1

\* C2: a start-sync call whose status read returns isProcessing = true is
\* answered 409 / already_processing, starts no run, and writes nothing: the
\* status entry, the task table and every other call are as before, and the
\* rejected call never does anything afterwards.
C2_RejectedCallChangesNothing ==
    [][ \A p \in Calls :
          /\ ( /\ call[p].pc = "idle"
               /\ call'[p].pc # "idle"
               /\ failures' = failures          \* the read returned the entry
               /\ Stored # <<>>
               /\ Stored[1].isProcessing )
             => /\ call'[p].pc = "rejected"
                /\ call'[p].httpStatus = 409
                /\ call'[p].response = "already_processing"
                /\ cache' = cache
                /\ db' = db
                /\ \A q \in Calls \ {p} : call'[q] = call[q]
          /\ call[p].pc = "rejected" => call'[p] = call[p]
      ]_vars

\* C2 witness: a call was rejected while the run in flight had already
\* recorded its messages
C2_Witness ==
    \E p, q \in Calls :
        /\ call[p].pc = "rejected"
        /\ InFlight(q)
        /\ Stored # <<>>
        /\ Stored[1].isProcessing
        /\ Stored[1].totalEmails > 0

\* Call p completes the cache.set of its updateSyncStatus call at site s
Writes(p, s) ==
    /\ call[p].pc = "merge"
    /\ call[p].site = s
    /\ call[p].phase = "set"
    /\ call'[p] # call[p]

\* The status holds the values of the acceptance write
IsAcceptanceStatus(v) ==
    /\ v.isProcessing
    /\ v.progress = 0
    /\ v.totalEmails = 0
    /\ v.processedEmails = 0
    /\ v.tasksCreated = 0
    /\ v.emailsFailed = 0
    /\ v.error = NoError

\* C3 (as claimed): when a start-sync call is accepted, the status store
\* holds isProcessing = true, progress 0, the counters 0 and error null
\* when the accepted response is produced.
C3_AcceptedImpliesStored ==
    [][ \A p \in Calls :
          (call[p].response = "" /\ call'[p].response = "processing")
             => /\ cache' # <<>>
                /\ IsAcceptanceStatus(cache'[1].val)
      ]_vars

\* C3 (amended): the accepted response is produced in the step that
\* completes the acceptance write and in no other; after that step the store
\* holds the acceptance status with a fresh TTL, unless the Redis write
\* failed, in which case the store is as before and the call is accepted all
\* the same; at that point the run has done nothing but issue its first
\* status read, and the response never changes, whatever the run does later.
C3_AcceptedAfterWriteAttempt ==
    [][ \A p \in Calls :
          /\ (call[p].response = "" /\ call'[p].response = "processing")
                => Writes(p, "initial")
          /\ Writes(p, "initial")
                => /\ call'[p].response = "processing"
                   /\ call'[p].httpStatus = 200
                   /\ call'[p].pc = "merge"
                   /\ call'[p].site = "fetching"
                   /\ call'[p].phase = "get"
                   /\ \/ /\ failures' = failures
                         /\ cache' # <<>>
                         /\ IsAcceptanceStatus(cache'[1].val)
                         /\ cache'[1].val.currentStep = "Connecting to Gmail..."
                         /\ cache'[1].expiresAt = now + StatusTTL
                      \/ /\ failures' = failures + 1
                         /\ cache' = cache
          /\ call[p].response = "processing"
                => /\ call'[p].response = "processing"
                   /\ call'[p].httpStatus = 200
      ]_vars

\* C3 witness: a second call has just been accepted after an earlier run
\* that counted messages, and the store holds the acceptance status
C3_Witness ==
    \E p, q \in Calls :
        /\ call[q].pc = "done"
        /\ call[q].fate # <<>>
        /\ call[p].response = "processing"
        /\ call[p].site = "fetching"
        /\ call[p].phase = "get"
        /\ Stored # <<>>
        /\ IsAcceptanceStatus(Stored[1])

\* C4 (as claimed): every status a reader can obtain has
\* processedEmails + emailsFailed <= totalEmails.
C4_SettledWithinTotal ==
    LET v == OrDefault(Stored)
    IN v.processedEmails + v.emailsFailed <= v.totalEmails

\* No other call has been made: call p is the only one that has left idle
Alone(p) == \A q \in Calls \ {p} : call[q].pc = "idle"

\* No two runs have overlapped: every call accepted so far was accepted when
\* no other was in flight
Sequential == \A q \in Calls : call[q].response = "processing" => call[q].lone

\* C5 (as claimed): while a run is in flight, successive status reads never
\* see progress decrease (stated for a run when no other call is made).
C5_ProgressNeverDecreases ==
    [][ \A p \in Calls :
          (InFlight(p) /\ Alone(p) /\ Alone(p)')
             => OrDefault(Stored').progress >= OrDefault(Stored).progress
      ]_vars

\* C5 (amended): a write of a run other than its acceptance write never
\* lowers the progress a reader obtains when its merge started from the
\* stored status and the same run stored that status, on any path; and the
\* progress a reader obtains is lowered only by a write or by a step that
\* loses the entry (its TTL elapses, or a failed read deletes it).
C5_OwnWritesNeverLowerProgress ==
    [][ /\ \A p \in Calls :
             ( /\ call[p].pc = "merge" /\ call[p].site # "initial"
               /\ call[p].phase = "set" /\ call'[p] # call[p]
               /\ writer = p
               /\ call[p].currentStatus = Stored )
             => OrDefault(Stored').progress >= OrDefault(Stored).progress
        /\ OrDefault(Stored').progress < OrDefault(Stored).progress
             => \/ (cache # <<>> /\ cache' = <<>>)
                \/ \E p \in Calls :
                      call[p].pc = "merge" /\ call[p].phase = "set" /\ call'[p] # call[p]
      ]_vars

\* C5 witness: a run that went through two batches has stored its terminal
\* success status
C5_Witness ==
    \E p \in Calls :
        /\ call[p].pc = "done"
        /\ call[p].site = "final"
        /\ Len(call[p].fate) > BatchSize
        /\ Stored # <<>>
        /\ Stored[1].progress = 100
        /\ Stored[1].totalEmails = Len(call[p].fate)

\* Call p completes a cache.set that Redis stores
Stores(p, s) == Writes(p, s) /\ failures' = failures

\* How many messages of a run had their promise rejected
Thrown(f) == Cardinality({j \in DOMAIN f : f[j] = "thrown"})

\* The task candidates of a run: those the extractor returned for the
\* messages it analysed
RECURSIVE Candidates(_, _)
Candidates(f, n) ==
    IF n = 0 THEN 0
    ELSE Candidates(f, n - 1)
           + (IF f[n] = "analysed" THEN Len(Extract(mailbox[n]).tasks) ELSE 0)

\* No row of the task table was inserted by call p
NoRowsOf(p, rows) == \A row \in rows : row.id[1] # p

\* C6 (as claimed): when the mail source returns no message, the run ends
\* without a call of the extractor or of the task store, and its terminal
\* status has isProcessing = false, progress 100, totalEmails 0,
\* tasksCreated 0 and the step "No new emails found" (stated for runs that
\* do not overlap).
C6_NoMailTerminalStatus ==
    [][ \A p \in Calls :
          (Stores(p, "nomail") /\ Sequential)
             => /\ ~cache'[1].val.isProcessing
                /\ cache'[1].val.progress = 100
                /\ cache'[1].val.totalEmails = 0
                /\ cache'[1].val.tasksCreated = 0
                /\ cache'[1].val.currentStep = "No new emails found"
      ]_vars

\* C6 (amended): when the mail source returns no message, the run ends with
\* one status write and without a call of the extractor or of the task store;
\* the status stored has isProcessing = false, progress 100, totalEmails 0,
\* the step "No new emails found" and lastSync = now; tasksCreated is not
\* written: it keeps the value the merge read, which is 0 when every status
\* write of the run was stored and every read returned what the run stored
\* last.
C6_NoMailKeepsTasksCreated ==
    [][ \A p \in Calls :
          /\ (call[p].pc = "fetch" /\ call'[p].emails = 0 /\ call'[p].error = NoError
              /\ call'[p] # call[p])
                => /\ call'[p].pc = "merge"
                   /\ call'[p].site = "nomail"
          /\ Writes(p, "nomail")
                => /\ call'[p].pc = "done"
                   /\ call'[p].fate = <<>>
                   /\ NoRowsOf(p, db')
          /\ Stores(p, "nomail")
                => /\ ~cache'[1].val.isProcessing
                   /\ cache'[1].val.progress = 100
                   /\ cache'[1].val.totalEmails = 0
                   /\ cache'[1].val.currentStep = "No new emails found"
                   /\ cache'[1].val.lastSync = now
                   /\ cache'[1].val.tasksCreated
                        = OrDefault(call[p].currentStatus).tasksCreated
                   /\ call[p].intact => cache'[1].val.tasksCreated = 0
      ]_vars

\* C6 witness: a run that found no message has stored its terminal status
\* over the status of an earlier run that created tasks
C6_Witness ==
    \E p \in Calls :
        /\ call[p].pc = "done"
        /\ call[p].site = "nomail"
        /\ writer = p
        /\ Stored # <<>>
        /\ Stored[1].progress = 100
        /\ Stored[1].tasksCreated = 0
        /\ Stored[1].totalEmails = 0
        /\ db # {}

C8_ThrownMessageLeavesErrorNull ==
    [][ \A p \in Calls :
          (Stores(p, "final") /\ Thrown(call[p].fate) > 0 /\ Sequential)
             => /\ cache'[1].val.emailsFailed = Thrown(call[p].fate)
                /\ cache'[1].val.error = NoError
      ]_vars

\* C8 (amended): a message whose processing throws leaves the run in its
\* batch loop; every message of the run is settled before the save step;
\* the terminal write of the success path stores emailsFailed = the number
\* of messages that threw and processedEmails = the number of the others;
\* the run takes the failure path only for an exception of the mail source
\* or of the task store; the terminal write of the success path does not
\* write error: it keeps the value its merge read, which is null when every
\* status write of the run was stored and every read returned what the run
\* stored last.
C8_ThrownMessageIsCounted ==
    [][ \A p \in Calls :
          /\ Thrown(call'[p].fate) > Thrown(call[p].fate)
                => /\ call'[p].pc = "process"
                   /\ call'[p].error = NoError
          /\ call'[p].pc = "insert"
                => \A j \in DOMAIN call'[p].fate : call'[p].fate[j] # "pending"
          /\ (call'[p].pc = "merge" /\ call'[p].site = "failed")
                => call'[p].error \in {"Failed to fetch Gmail emails.",
                                       "createMany failed"}
          /\ Stores(p, "final")
                => /\ cache'[1].val.emailsFailed = Thrown(call[p].fate)
                   /\ cache'[1].val.processedEmails
                        = Len(call[p].fate) - Thrown(call[p].fate)
                   /\ cache'[1].val.error = OrDefault(call[p].currentStatus).error
                   /\ call[p].intact => cache'[1].val.error = NoError
      ]_vars

\* C8 witness: a run in which a message of the first batch threw has gone on
\* to a later batch and stored its terminal success status
C8_Witness ==
    \E p \in Calls :
        /\ call[p].pc = "done"
        /\ call[p].site = "final"
        /\ writer = p
        /\ Len(call[p].fate) > BatchSize
        /\ call[p].fate[1] = "thrown"
        /\ call[p].fate[MaxMsgs] = "analysed"
        /\ Stored # <<>>
        /\ Stored[1].emailsFailed = 1
        /\ Stored[1].processedEmails = MaxMsgs - 1
        /\ Stored[1].error = NoError

\* C9 (as claimed): when the mail fetch or the bulk insert throws, the run
\* ends with isProcessing = false, a non-null error, the step "Sync failed",
\* progress as before the failure (10 or 85) and tasksCreated 0 (stated for
\* a run that no other call overlaps).
C9_FailureKeepsProgress ==
    [][ \A p \in Calls :
          (Stores(p, "failed") /\ Alone(p))
             => /\ ~cache'[1].val.isProcessing
                /\ cache'[1].val.error # NoError
                /\ cache'[1].val.currentStep = "Sync failed"
                /\ cache'[1].val.tasksCreated = 0
                /\ cache'[1].val.progress
                     = (IF call[p].error = "Failed to fetch Gmail emails." THEN 10 ELSE 85)
      ]_vars

\* C9 (amended): when the mail fetch or the bulk insert throws, the run
\* inserts no task and ends with a write of isProcessing = false, error =
\* the message of the exception, the step "Sync failed" and lastSync = now;
\* progress and tasksCreated are not written: they keep the values the merge
\* read, which are 10 (fetch) or 85 (insert) and 0 when every status write of
\* the run was stored and every read returned what the run stored last.
C9_FailureKeepsValuesRead ==
    [][ \A p \in Calls :
          /\ Writes(p, "failed")
                => /\ call'[p].pc = "done"
                   /\ NoRowsOf(p, db')
          /\ Stores(p, "failed")
                => /\ ~cache'[1].val.isProcessing
                   /\ cache'[1].val.error = call[p].error
                   /\ cache'[1].val.error # NoError
                   /\ cache'[1].val.currentStep = "Sync failed"
                   /\ cache'[1].val.lastSync = now
                   /\ cache'[1].val.progress
                        = OrDefault(call[p].currentStatus).progress
                   /\ cache'[1].val.tasksCreated
                        = OrDefault(call[p].currentStatus).tasksCreated
          /\ (Stores(p, "failed") /\ call[p].intact)
                => /\ cache'[1].val.tasksCreated = 0
                   /\ cache'[1].val.progress
                        = (IF call[p].error = "Failed to fetch Gmail emails."
                           THEN 10 ELSE 85)
      ]_vars

\* C9 witness: a run whose bulk insert threw has stored its failure status
\* with progress 85
C9_Witness ==
    \E p \in Calls :
        /\ call[p].pc = "done"
        /\ call[p].site = "failed"
        /\ writer = p
        /\ Stored # <<>>
        /\ Stored[1].error = "createMany failed"
        /\ Stored[1].progress = 85
        /\ Stored[1].tasksCreated = 0
        /\ ~Stored[1].isProcessing

\* C10 (as claimed): a message that an earlier, finished run has processed
\* and stored tasks for contributes no task candidate to a later run (stated
\* for runs that do not overlap).
C10_ProcessedMessageYieldsNoCandidate ==
    [][ \A p \in Calls : \A j \in 1..MaxMsgs :
          ( /\ Sequential
            /\ j \in DOMAIN call[p].fate
            /\ call[p].fate[j] = "pending"
            /\ call'[p].fate[j] = "analysed"
            /\ \E q \in Calls \ {p} :
                  /\ call[q].pc = "done"
                  /\ call[q].site = "final"
                  /\ j \in DOMAIN call[q].fate
                  /\ call[q].fate[j] = "analysed"
                  /\ ~NoRowsOf(q, db) )
          => Extract(mailbox[j]).tasks = <<>>
      ]_vars

\* C11: no record built by the per-message step has a deadline that is not
\* null and lies before the moment the candidate was examined; each task the
\* extractor returned gives one record, so a candidate whose deadline does
\* not parse or lies in the past was dropped by the extractor or has a record
\* with deadline null.
C11_NoPastDeadlineBuffered ==
    extraction.pc = "built"
       => /\ Len(extraction.tasksForEmail) = Len(extraction.tasks)
          /\ \A k \in 1..Len(extraction.tasksForEmail) :
                LET deadline == extraction.tasksForEmail[k].deadline
                    given == extraction.tasks[k].deadline
                IN /\ deadline # <<>> => deadline[1] >= extraction.currentDate
                   /\ deadline # <<>>
                        => given.kind = "iso"
                           /\ deadline[1] = given.day * DayLen + given.secs
                   /\ (given.kind = "bad"
                       \/ (given.kind = "iso"
                           /\ given.day * DayLen + given.secs < extraction.currentDate))
                        => deadline = <<>>

\* C11 witness: the extractor kept a deadline of today that had passed when
\* the record was built, and the record has deadline null, next to a record
\* with a later deadline
C11_Witness ==
    /\ extraction.pc = "built"
    /\ Len(extraction.tasksForEmail) = 2
    /\ extraction.tasks[1].deadline.kind = "iso"
    /\ extraction.tasks[1].deadline.day = 0
    /\ extraction.tasks[1].deadline.secs < extraction.currentDate
    /\ extraction.tasksForEmail[1].deadline = <<>>
    /\ extraction.tasksForEmail[2].deadline # <<>>

\* C12: the record built for a task the extractor returned with priority p
\* has priority 1 when p < 1, 4 when p > 4 and p otherwise.
C12_PriorityClamped ==
    extraction.pc = "built"
       => /\ Len(extraction.tasksForEmail) = Len(extraction.tasks)
          /\ \A k \in 1..Len(extraction.tasks) :
                LET p == extraction.tasks[k].priority
                IN extraction.tasksForEmail[k].priority
                     = (IF p < 1 THEN 1 ELSE IF p > 4 THEN 4 ELSE p)

\* C12 witness: the extractor returned one priority above 4 and one below 1,
\* and the records have 4 and 1
C12_Witness ==
    /\ extraction.pc = "built"
    /\ Len(extraction.tasks) = 2
    /\ extraction.tasks[1].priority > 4
    /\ extraction.tasks[2].priority < 1
    /\ extraction.tasksForEmail[1].priority = 4
    /\ extraction.tasksForEmail[2].priority = 1

\* A status write that ends a run
TerminalSites == {"nomail", "final", "failed"}

\* C13, liveness: when every step of a run that stays possible is taken
\* (its external calls return or throw), every accepted run ends.
C13_AcceptedRunEnds ==
    \A p \in Calls : (InFlight(p) ~> call[p].pc = "done")

\* C13, safety: a run ends only by completing the cache.set of a
\* status write that carries isProcessing = false (no mail, success or
\* failure); the store then holds that status, with isProcessing = false,
\* unless the Redis write failed; an exception of the mail source or of the
\* task store leads to the failure write and leaves the response of the
\* call, already given, as it was.
C13_RunEndsByTerminalWrite ==
    [][ \A p \in Calls :
          /\ (call[p].pc # "done" /\ call'[p].pc = "done")
                => /\ \E s \in TerminalSites : Writes(p, s)
                   /\ \/ /\ failures' = failures
                         /\ cache' # <<>>
                         /\ ~cache'[1].val.isProcessing
                         /\ cache'[1].expiresAt = now + StatusTTL
                      \/ /\ failures' = failures + 1
                         /\ cache' = cache
          /\ (call[p].error = NoError /\ call'[p].error # NoError)
                => /\ call'[p].pc = "merge"
                   /\ call'[p].site = "failed"
                   /\ call'[p].response = "processing"
                   /\ call'[p].httpStatus = 200
          /\ call[p].pc = "done" => call'[p] = call[p]
      ]_vars

Sites == {"initial", "fetching", "nomail", "analyzing", "batch", "saving", "final", "failed"}

\* C15 (as claimed): a status merge changes only the fields named in the
\* update, except lastSync, which becomes the current time exactly when the
\* merge changes isProcessing from true to false and keeps its value in
\* every other merge (stated for a run when no other call is made).
C15_LastSyncOnlyOnTransition ==
    [][ \A p \in Calls : \A s \in Sites :
          (Stores(p, s) /\ Alone(p))
             => LET read == OrDefault(call[p].currentStatus)
                    written == cache'[1].val
                IN /\ \A f \in Fields \ (DOMAIN Updates(s, call[p]) \cup {"lastSync"}) :
                         written[f] = read[f]
                   /\ written.lastSync
                        = (IF read.isProcessing /\ ~written.isProcessing
                           THEN now ELSE read.lastSync)
      ]_vars

\* C16 (as claimed): while the entry of a run that has stopped is in the
\* store with isProcessing = true, every start-sync call is rejected.
C16_RejectedUntilExpiry ==
    [][ \A p \in Calls :
          ( /\ call[p].pc = "idle" /\ call'[p].pc # "idle"
            /\ cache # <<>> /\ cache[1].val.isProcessing )
             => call'[p].pc = "rejected"
      ]_vars

\* C16 (amended): an entry stored at time t is in the store until t + 300 s
\* unless it is overwritten or deleted by a failed read; while it is there
\* with isProcessing = true, whatever has become of the run that wrote it,
\* every start-sync call whose status read succeeds is rejected; a start-sync
\* call made when the entry has expired is accepted.
C16_RejectedUntilExpiryUnlessReadFails ==
    [][ /\ cache # <<>> => now < cache[1].expiresAt
        /\ cache' # <<>> => now' < cache'[1].expiresAt
        /\ (cache # <<>> /\ cache' = <<>>)
              => \/ now' >= cache[1].expiresAt
                 \/ failures' = failures + 1
        /\ \A p \in Calls :
             /\ ( /\ call[p].pc = "idle" /\ call'[p].pc # "idle"
                  /\ failures' = failures
                  /\ cache # <<>> /\ cache[1].val.isProcessing )
                   => /\ call'[p].pc = "rejected"
                      /\ call'[p].httpStatus = 409
             /\ ( /\ call[p].pc = "idle" /\ call'[p].pc # "idle"
                  /\ cache = <<>> )
                   => /\ call'[p].pc = "merge"
                      /\ call'[p].site = "initial"
                      /\ call'[p].phase = "get"
             /\ Stores(p, "initial") => cache'[1].expiresAt = now + StatusTTL
      ]_vars

\* C16 witness: the entry of a run that has not ended has expired, and a
\* second call has been accepted and has stored its acceptance status at the
\* time of the expiry
C16_Witness ==
    \E p, q \in Calls :
        /\ InFlight(p)
        /\ call[p].lone
        /\ InFlight(q)
        /\ ~call[q].lone
        /\ failures = 0
        /\ now >= StatusTTL
        /\ writer = q
        /\ cache # <<>>
        /\ cache[1].expiresAt = now + StatusTTL
        /\ IsAcceptanceStatus(cache[1].val)

\* C14: a status request of a signed-in user that finds no entry, an entry
\* that has expired, or whose Redis read fails, is answered with status 200
\* and the zeroed default status (not processing, progress 0, empty step,
\* counts 0, lastSync and error null); an entry read is answered as stored.
C14_AbsentStatusReadsAsDefault ==
    [][ (check.pc = "fetching" /\ check'.pc = "responded" /\ check'.resp.code # 401)
           => /\ check'.resp.ok
              /\ check'.resp.code = 200
              /\ check'.resp.body # <<>>
              /\ DOMAIN check'.resp.body = Fields
              /\ (Stored = <<>> \/ failures' # failures)
                    => check'.resp.body = DefaultStatus
              /\ (Stored # <<>> /\ failures' = failures)
                    => check'.resp.body = Stored[1]
      ]_vars

\* C14 witness: the lifetime of every entry stored at the start has passed,
\* and a status request made after an earlier one has been answered with the
\* default
C14_Witness ==
    /\ now >= StatusTTL
    /\ failures = 0
    /\ check.pc = "responded"
    /\ check.resp.ok
    /\ check.resp.body = DefaultStatus
    /\ status # ClientDefault

\* Number of registrations of callback f
Registrations(ls, f) == Cardinality({i \in DOMAIN ls : ls[i] = f})

\* Some callback was invoked in this step
Invoked == notified' # notified

C18_TriggerWhileProcessingDoesNothing ==
    [][ \A t \in Triggers :
          (trigger[t].pc = "idle" /\ trigger'[t].pc # "idle" /\ status.isProcessing)
             => /\ trigger'[t] = [pc |-> "returned", result |-> "false", post |-> 0]
                /\ status' = status
                /\ ~Invoked
                /\ UNCHANGED <<cache, call, poll, check, listeners>>
      ]_vars

\* C18 witness: a triggerSync call has returned false without a request
\* while the sync an earlier call started was being polled
C18_Witness ==
    \E t, u \in Triggers :
        /\ trigger[t] = [pc |-> "returned", result |-> "false", post |-> 0]
        /\ trigger[u].result = "true"
        /\ status.isProcessing
        /\ InFlight(trigger[u].post)
        /\ poll[trigger[u].post].pc # "none"

\* The polling loop of POST p has a read in flight or scheduled
Polling(p) == poll[p].pc \in {"fetching", "responded"} \/ poll[p].timers > 0

\* C19: a polling loop has at most one read in flight or scheduled; when a
\* read that succeeded says the sync is processing, the loop schedules
\* exactly one further read; when it says the sync is not processing, the
\* loop schedules none and has ended; each timer that fires sends one request.
C19_PollsWhileProcessing ==
    [][ \A p \in Calls :
          /\ poll[p].timers \in 0..1
          /\ poll[p].pc \in {"fetching", "responded"} => poll[p].timers = 0
          /\ ( /\ poll[p].pc = "responded" /\ poll[p].resp.ok
               /\ poll'[p].pc = "idle" /\ failures' = failures )
                => /\ status' = SpreadStatus(status, poll[p].resp.body)
                   /\ poll[p].resp.body.isProcessing
                         => (poll'[p].timers = 1 /\ Polling(p)')
                   /\ ~poll[p].resp.body.isProcessing
                         => (poll'[p].timers = 0 /\ ~Polling(p)')
          /\ (poll[p].pc = "idle" /\ poll'[p].pc # "idle")
                => /\ poll[p].timers = 1
                   /\ poll'[p].timers = 0
                   /\ poll'[p].pc = "fetching"
          /\ (poll[p].pc = "idle" /\ poll[p].timers = 0) => poll'[p] = poll[p]
      ]_vars

\* C19 witness: the loop has made a read that said the sync was processing,
\* then, without a failure, a read that said it was not, and has ended
C19_Witness ==
    \E p \in Calls :
        /\ poll[p].reads >= 2
        /\ failures = 0
        /\ poll[p].pc = "idle"
        /\ poll[p].timers = 0
        /\ ~status.isProcessing
        /\ status.progress = 100

\* C20 (as claimed): a read of the polling loop that fails, by a request
\* that throws or by a response that is not ok, while the cached status says
\* the sync is processing, leaves a further read scheduled.
C20_FailedReadKeepsPolling ==
    [][ \A p \in Calls :
          ( /\ poll[p].pc \in {"fetching", "responded"}
            /\ poll'[p].pc = "idle"
            /\ (failures' # failures \/ ~poll[p].resp.ok)
            /\ status'.isProcessing )
             => poll'[p].timers = 1
      ]_vars

\* The messages of run p whose per-message step has not settled
Unfinished(p) == {j \in DOMAIN call[p].fate : call[p].fate[j] = "pending"}

\* C23: while a run analyses, its current batch is the next BatchSize (3)
\* messages in list order (fewer at the end of the list); every message of
\* the earlier batches has settled, as processed, skipped or thrown, and no
\* message of a later batch has started; so at most 3 messages of the run are
\* being processed; a message settles only as a member of the current batch.
C23_BatchesInOrder ==
    [][ \A p \in Calls :
          /\ call[p].pc = "process"
               => /\ call[p].i % BatchSize = 0
                  /\ call[p].i < call[p].emails
                  /\ Len(call[p].batchResults)
                       = Min(BatchSize, call[p].emails - call[p].i)
                  /\ \A j \in DOMAIN call[p].fate :
                       /\ j <= call[p].i => call[p].fate[j] # "pending"
                       /\ j > call[p].i + BatchSize => call[p].fate[j] = "pending"
                  /\ \A k \in DOMAIN call[p].batchResults :
                       (call[p].batchResults[k].status = "pending")
                          <=> (call[p].fate[call[p].i + k] = "pending")
                  /\ Cardinality(Unsettled(call[p])) <= BatchSize
          /\ (call[p].pc = "process" /\ call'[p].pc = "process"
                /\ call'[p] # call[p])
               => /\ call'[p].fate # call[p].fate
                  /\ \A j \in DOMAIN call[p].fate :
                       call'[p].fate[j] # call[p].fate[j]
                          => /\ call[p].fate[j] = "pending"
                             /\ j \in (call[p].i + 1)..(call[p].i + BatchSize)
          /\ (call[p].pc = "merge" /\ call'[p].pc = "process")
               => \A j \in DOMAIN call'[p].fate :
                     (call'[p].fate[j] = "pending") <=> (j > call'[p].i)
          /\ (call[p].pc # "process" \/ call'[p].pc # "process")
               => (call'[p].fate = call[p].fate \/ call[p].fate = <<>>)
      ]_vars

\* C23 witness: the second batch of a run over four messages is being
\* processed, the three messages of the first batch having settled, one of
\* them by an exception
C23_Witness ==
    \E p \in Calls :
        /\ call[p].pc = "process"
        /\ call[p].emails = 4
        /\ call[p].i = BatchSize
        /\ Unfinished(p) = {4}
        /\ \E j \in 1..BatchSize : call[p].fate[j] = "thrown"

\* C24 (as claimed): every status a batch write stores has
\* processedEmails + emailsFailed = min(3 * j, totalEmails) for a number
\* j >= 1 of completed batches and
\* progress = min(20 + 60 * (processedEmails + emailsFailed) / totalEmails, 80),
\* which is 80 after the last batch (stated for a run when no other call is
\* made).
C24_CountersAtBatchBoundaries ==
    [][ \A p \in Calls :
          (Stores(p, "batch") /\ Alone(p))
             => LET v == cache'[1].val
                    settled == v.processedEmails + v.emailsFailed
                IN /\ v.totalEmails > 0
                   /\ \E j \in 1..MaxMsgs : settled = Min(BatchSize * j, v.totalEmails)
                   /\ v.progress = Min(20 + ((60 * settled) \div v.totalEmails), 80)
                   /\ (settled = v.totalEmails) => v.progress = 80
      ]_vars

\* The rows of the task table inserted by call p
RowsOf(p, rows) == {row \in rows : row.id[1] = p}

\* C25: the task table changes only by the single createMany of a run, which
\* inserts the whole non-empty buffer at once, when every message of the run
\* has settled and the run's "saving" status update (progress 85) has
\* returned, and the run has inserted nothing before; a run that ends by
\* the failure write or finds no mail, and a run whose buffer is empty, has
\* inserted no row.
C25_SingleBulkInsert ==
    [][ /\ db' # db
           => \E p \in Calls :
                 /\ call[p].pc = "insert"
                 /\ call'[p].pc = "merge" /\ call'[p].site = "final"
                 /\ call[p].emails >= 1
                 /\ Unfinished(p) = {}
                 /\ Len(call[p].allTasksToCreate) > 0
                 /\ RowsOf(p, db) = {}
                 /\ db' = db \cup NewRows(p, call[p].allTasksToCreate, now)
                 /\ Cardinality(RowsOf(p, db')) = Len(call[p].allTasksToCreate)
        /\ \A p \in Calls :
             /\ (call[p].pc # "insert" /\ call'[p].pc = "insert")
                   => /\ Writes(p, "saving")
                      /\ Updates("saving", call[p]).progress = 85
                      /\ failures' = failures => cache'[1].val.progress = 85
             /\ call[p].site \in {"nomail", "failed", "initial", "fetching",
                                  "analyzing", "batch", "saving"}
                   => RowsOf(p, db) = {}
             /\ call[p].pc \in {"idle", "rejected", "fetch", "process", "insert"}
                   => RowsOf(p, db) = {}
             /\ (call[p].pc = "insert" /\ call'[p].pc # "insert"
                   /\ call[p].allTasksToCreate = <<>>)
                   => (db' = db /\ call'[p].site = "final")
      ]_vars

\* C25 witness: a run has inserted its buffer of two records and is about to
\* write its terminal status, after another run failed in createMany and
\* inserted nothing
C25_Witness ==
    \E p, q \in Calls :
        /\ call[p].pc = "merge"
        /\ call[p].site = "final"
        /\ Cardinality(RowsOf(p, db)) = 2
        /\ call[q].pc = "done"
        /\ call[q].site = "failed"
        /\ call[q].fate # <<>>
        /\ \A j \in DOMAIN call[q].fate : call[q].fate[j] = "analysed"
        /\ RowsOf(q, db) = {}

\* C29: the terminal success status a run stores has tasksCreated = the
\* length of the buffer passed to createMany = the number of records built
\* from the messages the run analysed; the rows of the run in the task table
\* are never more than that.
C29_TasksCreatedCountsBuffer ==
    [][ \A p \in Calls :
          /\ Stores(p, "final")
               => /\ cache'[1].val.tasksCreated = Len(call[p].allTasksToCreate)
                  /\ cache'[1].val.tasksCreated
                       = Candidates(call[p].fate, Len(call[p].fate))
                  /\ cache'[1].val.tasksCreated >= Cardinality(RowsOf(p, db'))
          /\ (call[p].pc = "insert" /\ call'[p].pc = "merge" /\ call'[p].site = "final")
               => /\ call'[p].totalTasksCreated = Len(call[p].allTasksToCreate)
                  /\ call'[p].totalTasksCreated >= Cardinality(RowsOf(p, db'))
      ]_vars

\* C29 witness: the stored terminal success status of a run in which a
\* message failed counts the records of the run, at least two, all of which
\* are in the task table
C29_Witness ==
    \E p \in Calls :
        /\ call[p].pc = "done"
        /\ call[p].site = "final"
        /\ writer = p
        /\ Stored # <<>>
        /\ Stored[1].tasksCreated >= 2
        /\ Stored[1].tasksCreated = Cardinality(RowsOf(p, db))
        /\ Stored[1].emailsFailed >= 1

\* No start-sync call is between its acceptance and its terminal status write
Quiescent == \A p \in Calls : call[p].pc \in {"idle", "rejected", "done"}

C26_ListReadsAfterSuccessAreFresh ==
    \A r \in ListReads :
        (listReads[r].pc = "done" /\ listReads[r].code = 200)
           => \A p \in listReads[r].after : RowsOf(p, db) \subseteq listReads[r].tasks

\* C22 (as claimed): every row of the task table has an integer priority
\* from 1 to 4.
C22_StoredPriorityInRange ==
    \A row \in db : row.priority \in 1..4

\* The ids of the rows a step changes or removes
Touched == {row.id : row \in db \ db'}

\* The owner of the task with this id: a set, empty when there is none
OwnersOf(rows, id) == {row.userId : row \in {x \in rows : x.id = id}}

C27_AtMostOnePollingLoop ==
    Cardinality({p \in Calls : Polling(p)}) <= 1

\* C28: when the POST of triggerSync throws or is answered with a status
\* that is not ok, the 409 of a sync in progress included, triggerSync
\* returns false, the cached status then has isProcessing = false and an
\* error that is not null, the subscribers are notified and no polling loop
\* is started, whatever the status the server holds; it returns true, and
\* starts a loop, only on an ok response.
C28_FailedTriggerResetsStatus ==
    [][ \A t \in Triggers :
          (trigger[t].pc = "posting" /\ trigger'[t].pc = "returned")
             => LET p == trigger[t].post
                    ok == /\ failures' = failures
                          /\ p <= ncalls
                          /\ call[p].httpStatus = 200
                IN /\ trigger'[t].result = (IF ok THEN "true" ELSE "false")
                   /\ ~ok => /\ ~status'.isProcessing
                             /\ status'.error # NoError
                             /\ Invoked
                             /\ notified'.with = status'
                             /\ poll' = poll
                   /\ ok => /\ status' = status
                            /\ poll'[p].pc = "fetching"
      ]_vars

\* C28 witness: the POST of a triggerSync call was answered 409 while the
\* server holds isProcessing = true; the call has returned false, the cached
\* status is not processing and has the error, and no loop was started for it
C28_Witness ==
    \E t \in Triggers :
        /\ trigger[t].pc = "returned"
        /\ trigger[t].result = "false"
        /\ trigger[t].post \in Calls
        /\ call[trigger[t].post].httpStatus = 409
        /\ Stored # <<>>
        /\ Stored[1].isProcessing
        /\ ~status.isProcessing
        /\ status.error = "Sync failed"
        /\ poll[trigger[t].post].pc = "none"

====
